---- MODULE Spec2Model ----
(***************************************************************************)
(* Model of the C4 exporter's parsing core (ryanshriver/miro-c4).          *)
(*                                                                         *)
(* The host board returns a flat list of items; a frame selects some of    *)
(* them.  A parse turns the frame's shapes and connectors into a result    *)
(* {model?, warnings, errors}.  The repository holds several copies of     *)
(* processConnectors and of the two parsers; every copy a property is      *)
(* stated about is modelled under its own name, and a parse action says    *)
(* which parser ran and which processConnectors it was linked with.        *)
(*                                                                         *)
(* Text: a string is modelled as the sequence of its text tokens (the      *)
(* empty string is <<>>, concatenation is \o); markup is modelled by the   *)
(* structure of a Content record: the text of the first <strong> span      *)
(* and the non-empty <br/>-separated lines of the remaining spans.         *)
(***************************************************************************)
EXTENDS Integers, Sequences, FiniteSets, TLC

(* ------------------------------ bounds -------------------------------- *)
\* most shapes the frame under study holds
MaxShapes == 3
\* most connectors the frame under study holds
MaxConnectors == 2

(* ------------------------------- text --------------------------------- *)
Content(strong, lines) == [strong |-> strong, lines |-> lines]

\* String.prototype.toLowerCase on the tokens used by the boards.
toLowerCase(tok) ==
  CASE tok = "Employee"       -> "employee"
    [] tok = "Manager"        -> "manager"
    [] tok = "Admin"          -> "admin"
    [] tok = "Talent Systems" -> "talent systems"
    [] tok = "Email System"   -> "email system"
    [] tok = "Uses Outlook"   -> "uses outlook"
    [] tok = "Talent Web App" -> "talent web app"
    [] tok = "Mobile App"     -> "mobile app"
    [] tok = "Talent DB"      -> "talent db"
    [] tok = "Talent API"     -> "talent api"
    [] tok = "Container"      -> "container"
    [] tok = "App"            -> "app"
    [] tok = "Database"       -> "database"
    [] tok = "Web App"        -> "web app"
    [] tok = "Node.ks"        -> "node.ks"
    [] tok = "Auth Service"   -> "auth service"
    [] tok = "Payroll"        -> "payroll"
    [] tok = "Approves leave" -> "approves leave"
    [] tok = "Web Portal"     -> "web portal"
    [] OTHER                  -> tok

\* The proper substrings, among the keywords the parsers look for, of the
\* lower-cased tokens.
Substrings ==
  { <<"talent web app", "web">>, <<"talent web app", "web app">>,
    <<"web app", "web">>,
    <<"web portal", "web">>,
    <<"mobile app", "mobile">>,
    <<"talent db", "db">>,
    <<"database", "database">> }

\* String.prototype.includes on one lower-cased token
includesTok(s, kw) == s = kw \/ <<s, kw>> \in Substrings

\* name.toLowerCase().includes(kw) on a text
includes(text, kw) ==
  \E i \in 1..Len(text) : includesTok(toLowerCase(text[i]), kw)

\* cleanContent: strips every tag, so the text of the <strong> span and of
\* the lines run together; whitespace (newlines included) is normalised
\* before the split on '\n', so the split returns the whole text.
cleanContent(content) ==
  (IF content.strong = "" THEN <<>> ELSE <<content.strong>>) \o content.lines

\* a parse that keeps every cleaned line in the description
parseHtmlContent_unfiltered(content) ==
  LET title        == IF content.strong = "" THEN <<>> ELSE <<content.strong>>
      cleanedLines == [i \in 1..Len(content.lines) |-> <<content.lines[i]>>]
  IN  [title |-> IF title # <<>> THEN title
                 ELSE IF Len(cleanedLines) > 0 THEN cleanedLines[1] ELSE <<>>,
       description |-> cleanedLines]
\* parseHtmlContent of c4Utils.ts: the title is the <strong> text, else the
\* first cleaned line, else ''; the description keeps the cleaned lines
\* that differ from the <strong> title.
parseHtmlContent(content) ==
  LET title        == IF content.strong = "" THEN <<>> ELSE <<content.strong>>
      cleanedLines == [i \in 1..Len(content.lines) |-> <<content.lines[i]>>]
      finalTitle   == IF title # <<>> THEN title
                      ELSE IF Len(cleanedLines) > 0 THEN cleanedLines[1]
                      ELSE <<>>
      description  == SelectSeq(cleanedLines, LAMBDA line : line # title)
  IN  [title |-> finalTitle, description |-> description]

(* ------------------------------ colours ------------------------------- *)
PERSON            == "#305bab"
CORE_SYSTEM       == "#1a1a1a"
SUPPORTING_SYSTEM == "#e7e7e7"
WEB_BROWSER       == "#12314c"
CONTAINER         == "#1a1a1a"
DATABASE          == "#f1e7f9"
EXTERNAL_SYSTEM   == "#e7e7e7"
WHITE             == "#ffffff"

(* --------------------------- the host board --------------------------- *)
Shape(id, form, fillColor, x, y, content) ==
  [id |-> id, type |-> "shape", shape |-> form, fillColor |-> fillColor,
   x |-> x, y |-> y, content |-> content]

Connector(id, start, end, startStrokeCap, endStrokeCap, captions) ==
  [id |-> id, type |-> "connector", start |-> start, end |-> end,
   startStrokeCap |-> startStrokeCap, endStrokeCap |-> endStrokeCap,
   captions |-> captions]

NoText == Content("", <<>>)

Stencil(id, x, y) ==
  [id |-> id, type |-> "stencil", shape |-> "", fillColor |-> "",
   x |-> x, y |-> y, content |-> NoText]

\* Board "actors": a person with its head circle, a core system, a circle
\* of the legend lying next to the core system and a named rectangle of the
\* legend that a connector joins to the core system.
\* Board "links": the core system, a supporting system with a description
\* and a shape without text, joined by connectors of every arrowhead
\* placement, one of them with a dangling start.
\* Board "context": three people around one head circle, one of them with a
\* description and two at the same x, a core system and two supporting
\* systems, one with a description.
\* Board "containers": a web and a mobile application, two services, a
\* database, a browser stencil and a web portal drawn as a round rectangle.
\* Board "duplicates": two services of one name and two external systems of
\* one name, the second of each with a description of its own.
\* Board "template": a service and a shape that still carries the template's
\* placeholder text 'Container', joined by a connector.
BoardItems ==
  { Shape("s1", "round_rectangle", PERSON, 100, 100, Content("Employee", <<>>)),
    Shape("s2", "circle", WHITE, 100, 80, NoText),
    Shape("s3", "round_rectangle", CORE_SYSTEM, 300, 100, Content("Talent Systems", <<>>)),
    Shape("s4", "rectangle", SUPPORTING_SYSTEM, 500, 100, Content("Email System", <<"Uses Outlook">>)),
    Shape("s5", "rectangle", SUPPORTING_SYSTEM, 700, 100, NoText),
    Shape("s6", "circle", WHITE, 300, 80, NoText),
    Shape("s7", "rectangle", SUPPORTING_SYSTEM, 500, 300, Content("Payroll", <<>>)),
    Connector("c1", "s1", "s3", "none", "arrow", <<Content("", <<"Maintains personal data">>)>>),
    Connector("c2", "s3", "s4", "none", "arrow", <<Content("", <<"Sends employee data">>)>>),
    Connector("c3", "s3", "s4", "arrow", "none", <<>>),
    Connector("c4", "s3", "s4", "none", "none", <<>>),
    Connector("c5", "s3", "s4", "arrow", "arrow", <<>>),
    Connector("c6", "s4", "s3", "rounded_stealth", "rounded_stealth", <<>>),
    Connector("c7", "s5", "s3", "arrow", "arrow", <<>>),
    Connector("c8", "s9", "s3", "none", "rounded_stealth", <<>>),
    Connector("c9", "s3", "s7", "none", "arrow", <<>>),
    Shape("p1", "round_rectangle", PERSON, 320, 100, Content("Manager", <<"Approves leave">>)),
    Shape("p2", "round_rectangle", PERSON, 280, 100, Content("Employee", <<>>)),
    Shape("p3", "round_rectangle", PERSON, 280, 110, Content("Admin", <<>>)),
    Shape("h1", "circle", WHITE, 300, 60, NoText),
    Shape("k1", "round_rectangle", CORE_SYSTEM, 900, 100, Content("Talent Systems", <<>>)),
    Shape("e1", "rectangle", SUPPORTING_SYSTEM, 1300, 100, Content("Email System", <<"Uses Outlook">>)),
    Shape("e2", "rectangle", SUPPORTING_SYSTEM, 1100, 100, Content("Payroll", <<>>)),
    Connector("x1", "k1", "e1", "none", "arrow", <<>>),
    Connector("x2", "p2", "k1", "none", "arrow", <<>>),
    Shape("w1", "rectangle", WEB_BROWSER, 100, 100, Content("Talent Web App", <<>>)),
    Shape("m1", "rectangle", WEB_BROWSER, 300, 100, Content("Mobile App", <<>>)),
    Shape("a1", "round_rectangle", CONTAINER, 500, 100, Content("Talent API", <<>>)),
    Shape("a2", "round_rectangle", CONTAINER, 700, 100, Content("Auth Service", <<>>)),
    Shape("d1", "can", DATABASE, 900, 100, Content("Talent DB", <<>>)),
    Stencil("t1", 1100, 100),
    Shape("b1", "round_rectangle", CONTAINER, 1300, 100, Content("Web Portal", <<>>)),
    Connector("y1", "a1", "d1", "none", "arrow", <<>>),
    Connector("y2", "w1", "a1", "none", "arrow", <<>>),
    Shape("g1", "round_rectangle", CONTAINER, 100, 100, Content("Talent API", <<>>)),
    Shape("g2", "round_rectangle", CONTAINER, 300, 100, Content("Talent API", <<"Node.ks">>)),
    Shape("q1", "rectangle", EXTERNAL_SYSTEM, 500, 100, Content("Payroll", <<>>)),
    Shape("q2", "rectangle", EXTERNAL_SYSTEM, 700, 100, Content("Payroll", <<"Uses Outlook">>)),
    Shape("n1", "round_rectangle", CONTAINER, 300, 300, Content("Container", <<>>)),
    Connector("y3", "n1", "a1", "none", "arrow", <<>>) }

Item(id) == CHOOSE it \in BoardItems : it.id = id

Boards == {"actors", "links", "context", "containers", "duplicates", "template"}

BoardShapes(b) ==
  CASE b = "actors"     -> {"s1", "s2", "s3", "s6", "s7"}
    [] b = "links"      -> {"s3", "s4", "s5"}
    [] b = "context"    -> {"p1", "p2", "p3", "h1", "k1", "e1", "e2"}
    [] b = "containers" -> {"w1", "m1", "a1", "a2", "d1", "t1", "b1"}
    [] b = "duplicates" -> {"g1", "g2", "q1", "q2"}
    [] b = "template"   -> {"n1", "a1"}

BoardConnectors(b) ==
  CASE b = "actors"     -> {"c1", "c8", "c9"}
    [] b = "links"      -> {"c2", "c3", "c4", "c5", "c6", "c7", "c8"}
    [] b = "context"    -> {"x1", "x2"}
    [] b = "containers" -> {"y1", "y2"}
    [] b = "duplicates" -> {}
    [] b = "template"   -> {"y3"}

\* children of the sub-frame titled 'Legend'
LegendChildrenIds == {"s6", "s7"}

(* ------------------------------- state -------------------------------- *)
VARIABLES
  board,       \* the board the frame lies on
  shapeIds,    \* ids of the frame's shapes, in the order the host returns them
  connectorIds,  \* ids of the frame's connectors, in host order
  pc,          \* "editing" while the frame is drawn, "done" after a parse;
               \* in the exporter "idle", and "exporting" while isLoading
  result,      \* the last parse: who ran, its processConnectors output, its ParseResult
  component,   \* the copy of the C4Exporter component that is mounted
  selectedFrameId,  \* the option chosen in the frame dropdown, "" for none
  exportType,  \* the `type` the export button passed to handleExport
  warnings,    \* the warnings state of Page
  errors,      \* the errors state of Page
  downloads,   \* the files offered for download so far
  promise,     \* the promise of the last handleExport call
  fault        \* what the host did to the last export

exportVars ==
  <<component, selectedFrameId, exportType, warnings, errors, downloads, promise, fault>>

vars == <<board, shapeIds, connectorIds, pc, result, component, selectedFrameId, exportType, warnings, errors, downloads, promise, fault>>

Range(s) == {s[i] : i \in 1..Len(s)}

\* getFrameItems: the board items whose id is in frame.childrenIds
FrameShapes     == [i \in 1..Len(shapeIds) |-> Item(shapeIds[i])]
FrameConnectors == [i \in 1..Len(connectorIds) |-> Item(connectorIds[i])]

(* ------------------------------ helpers ------------------------------- *)
Abs(n) == IF n < 0 THEN -n ELSE n

\* Map<string, miro.Shape> keeps insertion order: a sequence of shapes
MapHas(shapeMap, id) == \E i \in 1..Len(shapeMap) : shapeMap[i].id = id
MapGet(shapeMap, id) ==
  shapeMap[CHOOSE i \in 1..Len(shapeMap) : shapeMap[i].id = id]

\* Map<string, number>: a function on the keys set so far
EmptyMap == [k \in {} |-> 0]
\* map.get(k) || 0
Get(m, k) == IF k \in DOMAIN m THEN m[k] ELSE 0
\* map.set(k, (map.get(k) || 0) + 1)
Increment(m, k) ==
  [n \in (DOMAIN m) \cup {k} |-> IF n = k THEN Get(m, k) + 1 ELSE m[n]]

(* ------------------------- c4Utils.ts (first copy) -------------------- *)
\* isInLegendArea for a shape or connector of the frame: the frame has a
\* child frame titled 'Legend' and the item is one of its children.
\* a test that finds no item in the legend
isInLegendArea_never(item) == FALSE
\* isInLegendArea: the item is a child of the sub-frame titled 'Legend'
isInLegendArea(item) == item.id \in LegendChildrenIds

thresholdX == 100
thresholdY == 150

\* isPerson: a round rectangle with a circle shape of `items` closer than
\* the thresholds on both axes.
isPerson(shape, items) ==
  /\ shape.shape = "round_rectangle"
  /\ \E i \in 1..Len(items) :
       /\ items[i].type = "shape"
       /\ items[i].shape = "circle"
       /\ Abs(items[i].x - shape.x) < thresholdX
       /\ Abs(items[i].y - shape.y) < thresholdY

\* stripHtmlTags: entities decoded, tags replaced by a space, whitespace
\* collapsed: the caption's text
stripHtmlTags(content) == cleanContent(content)

\* 'arrow' and 'rounded_stealth' both count as an arrowhead
hasArrow(strokeCap) == strokeCap = "arrow" \/ strokeCap = "rounded_stealth"

\* parseHtmlContent(shape.content).title || cleanContent(shape.content)
shapeTitle(shape) ==
  LET title == parseHtmlContent(shape.content).title
  IN  IF title # <<>> THEN title ELSE cleanContent(shape.content)

\* a connector with a dangling end taken for a bidirectional one
skipConnector_recorded(acc, connector) ==
  [acc EXCEPT !.bidirectionalRelationships =
     Append(@, [source |-> <<connector.start>>, target |-> <<connector.end>>])]

\* `continue` on a connector whose start or end is not in the shape map
skipConnector(acc, connector) == acc

EmptyAcc ==
  [integrations |-> <<>>, incomingCount |-> EmptyMap,
   outgoingCount |-> EmptyMap, bidirectionalRelationships |-> <<>>]

\* lines 272-282: a connector with an arrowhead on both ends is recorded
\* (when both ends have a title) and skipped
\* the bidirectional connector passed over without a record
recordBidirectional_dropped(acc, sourceTitle, targetTitle) == acc

\* bidirectionalRelationships.push({source, target}) for two named shapes
recordBidirectional(acc, sourceTitle, targetTitle) ==
  IF sourceTitle # <<>> /\ targetTitle # <<>>
  THEN [acc EXCEPT !.bidirectionalRelationships =
          Append(@, [source |-> sourceTitle, target |-> targetTitle])]
  ELSE acc

\* a count that increments the outgoing side only
countDependencies_outgoingOnly(acc, sourceTitle, targetTitle, sourceIsPerson, targetIsPerson, hasStartArrow, hasEndArrow) ==
  IF hasEndArrow THEN [acc EXCEPT !.outgoingCount = Increment(@, sourceTitle)]
  ELSE acc
\* lines 303-315: dependency counts of one accepted connector
countDependencies(acc, sourceTitle, targetTitle, sourceIsPerson, targetIsPerson, hasStartArrow, hasEndArrow) ==
  IF ~sourceIsPerson /\ ~targetIsPerson
  THEN IF hasEndArrow
       THEN [acc EXCEPT !.outgoingCount = Increment(@, sourceTitle),
                        !.incomingCount = Increment(@, targetTitle)]
       ELSE IF hasStartArrow
       THEN [acc EXCEPT !.outgoingCount = Increment(@, targetTitle),
                        !.incomingCount = Increment(@, sourceTitle)]
       ELSE acc
  ELSE acc

\* the body of the loop of processConnectors (lines 261-316)
\* a number that runs one ahead of the list
nextNumber_ahead(integrations) == Len(integrations) + 2

\* number: integrations.length + 1
nextNumber(integrations) == Len(integrations) + 1

processConnector(acc, connector, shapeMap) ==
  IF ~MapHas(shapeMap, connector.start) \/ ~MapHas(shapeMap, connector.end)
  THEN skipConnector(acc, connector)
  ELSE
    LET sourceShape   == MapGet(shapeMap, connector.start)
        targetShape   == MapGet(shapeMap, connector.end)
        hasStartArrow == hasArrow(connector.startStrokeCap)
        hasEndArrow   == hasArrow(connector.endStrokeCap)
        sourceTitle   == shapeTitle(sourceShape)
        targetTitle   == shapeTitle(targetShape)
        sourceIsPerson == isPerson(sourceShape, shapeMap)
        targetIsPerson == isPerson(targetShape, shapeMap)
    IN  IF hasStartArrow /\ hasEndArrow
        THEN recordBidirectional(acc, sourceTitle, targetTitle)
        ELSE IF sourceTitle = <<>> \/ targetTitle = <<>>
        THEN acc
        ELSE countDependencies(
               [acc EXCEPT !.integrations =
                  Append(@, [number      |-> nextNumber(@),
                             source      |-> sourceTitle,
                             dependsOn   |-> targetTitle,
                             description |-> [i \in 1..Len(connector.captions) |->
                                                stripHtmlTags(connector.captions[i])]])],
               sourceTitle, targetTitle, sourceIsPerson, targetIsPerson,
               hasStartArrow, hasEndArrow)

RECURSIVE processConnectorsFrom(_, _, _, _)
processConnectorsFrom(cs, i, shapeMap, acc) ==
  IF i > Len(cs) THEN acc
  ELSE processConnectorsFrom(cs, i + 1, shapeMap,
                             processConnector(acc, cs[i], shapeMap))

\* processConnectors, c4Utils.ts lines 252-319
processConnectors(cs, shapeMap) == processConnectorsFrom(cs, 1, shapeMap, EmptyAcc)

(* ------------------------- c4Utils.ts (second copy) ------------------- *)
\* the special cases 'App' -> 'Talent Web App', 'Database' -> 'Talent DB'
actualName(name) ==
  IF name = <<"App">> THEN <<"Talent Web App">>
  ELSE IF name = <<"Database">> THEN <<"Talent DB">>
  ELSE name

\* every connector that is not bidirectional counts start -> end
countStartToEnd(acc, sourceName, targetName) ==
  [acc EXCEPT !.outgoingCount = Increment(@, sourceName),
              !.incomingCount = Increment(@, targetName)]

\* captions cleaned with cleanContent, the empty ones dropped
captionTexts(captions) ==
  SelectSeq([i \in 1..Len(captions) |-> cleanContent(captions[i])],
            LAMBDA text : text # <<>>)

processConnector_2(acc, connector, shapeMap) ==
  IF ~MapHas(shapeMap, connector.start) \/ ~MapHas(shapeMap, connector.end)
  THEN skipConnector(acc, connector)
  ELSE
    LET startShape    == MapGet(shapeMap, connector.start)
        endShape      == MapGet(shapeMap, connector.end)
        hasStartArrow == hasArrow(connector.startStrokeCap)
        hasEndArrow   == hasArrow(connector.endStrokeCap)
        sourceName    == shapeTitle(startShape)
        targetName    == shapeTitle(endShape)
    IN  IF hasStartArrow /\ hasEndArrow
        THEN [acc EXCEPT !.bidirectionalRelationships =
                Append(@, [source |-> sourceName, target |-> targetName])]
        ELSE countStartToEnd(
               [acc EXCEPT !.integrations =
                  Append(@, [number |-> Len(@) + 1,
                             source |-> actualName(sourceName),
                             dependsOn |-> actualName(targetName),
                             description |-> captionTexts(connector.captions)])],
               actualName(sourceName), actualName(targetName))

RECURSIVE processConnectorsFrom_2(_, _, _, _)
processConnectorsFrom_2(cs, i, shapeMap, acc) ==
  IF i > Len(cs) THEN acc
  ELSE processConnectorsFrom_2(cs, i + 1, shapeMap,
                               processConnector_2(acc, cs[i], shapeMap))

processConnectors_2(cs, shapeMap) ==
  processConnectorsFrom_2(cs, 1, shapeMap, EmptyAcc)

(* ------------------------------ part_007 ------------------------------ *)
\* parseHtmlContent of part_007: the title is the text of the first <strong>
\* span, else the first <br/>-separated line; the description is the text
\* outside the <strong> span.
parseHtmlContent_7(content) ==
  [title |-> IF content.strong # "" THEN <<content.strong>>
             ELSE IF Len(content.lines) > 0 THEN <<content.lines[1]>>
             ELSE <<>>,
   description |-> content.lines]

\* getShapeName
getShapeName(shapeMap, shapeId) ==
  IF ~MapHas(shapeMap, shapeId) THEN <<>>
  ELSE parseHtmlContent_7(MapGet(shapeMap, shapeId).content).title

\* [id1, id2].sort(): the ids of the boards in code-unit order
idRank(id) ==
  CASE id = "a1" -> 1  [] id = "a2" -> 2  [] id = "d1" -> 3  [] id = "e1" -> 4
    [] id = "e2" -> 5  [] id = "h1" -> 6  [] id = "k1" -> 7  [] id = "m1" -> 8
    [] id = "n1" -> 9  [] id = "p1" -> 10 [] id = "p2" -> 11 [] id = "p3" -> 12
    [] id = "s1" -> 13 [] id = "s2" -> 14 [] id = "s3" -> 15 [] id = "s4" -> 16
    [] id = "s5" -> 17 [] id = "s6" -> 18 [] id = "s7" -> 19 [] id = "s9" -> 20
    [] id = "t1" -> 21 [] id = "w1" -> 22

\* getPairKey: the two ids sorted; the key id1-id2 is kept as the pair
getPairKey(id1, id2) ==
  IF idRank(id1) <= idRank(id2) THEN <<id1, id2>> ELSE <<id2, id1>>

\* Set.add on a set kept in insertion order
SetAdd(set, e) ==
  IF \E i \in 1..Len(set) : set[i] = e THEN set ELSE Append(set, e)

EmptyAcc_7 ==
  [integrations |-> <<>>, incomingCount |-> EmptyMap,
   outgoingCount |-> EmptyMap, bidirectionalRelationships |-> <<>>,
   processedPairs |-> {}]

\* a pair is bidirectional when an earlier connector joined the same shapes
checkPair(acc, pairKey) ==
  [acc EXCEPT
     !.bidirectionalRelationships =
        IF pairKey \in acc.processedPairs THEN SetAdd(@, pairKey) ELSE @,
     !.processedPairs = @ \cup {pairKey}]

processConnector_7(acc, connector, shapeMap) ==
  IF ~MapHas(shapeMap, connector.start) \/ ~MapHas(shapeMap, connector.end)
  THEN skipConnector(acc, connector)
  ELSE
    LET startName == getShapeName(shapeMap, connector.start)
        endName   == getShapeName(shapeMap, connector.end)
        counted   == [acc EXCEPT !.outgoingCount = Increment(@, startName),
                                 !.incomingCount = Increment(@, endName)]
        checked   == checkPair(counted, getPairKey(connector.start, connector.end))
    IN  IF startName = <<>> \/ endName = <<>> THEN acc
        ELSE [checked EXCEPT !.integrations =
                Append(@, [number |-> Len(@) + 1, source |-> startName,
                           dependsOn |-> endName, description |-> <<>>])]

RECURSIVE processConnectorsFrom_7(_, _, _, _)
processConnectorsFrom_7(cs, i, shapeMap, acc) ==
  IF i > Len(cs) THEN acc
  ELSE processConnectorsFrom_7(cs, i + 1, shapeMap,
                               processConnector_7(acc, cs[i], shapeMap))

processConnectors_7(cs, shapeMap) ==
  LET acc == processConnectorsFrom_7(cs, 1, shapeMap, EmptyAcc_7)
  IN  [integrations |-> acc.integrations, incomingCount |-> acc.incomingCount,
       outgoingCount |-> acc.outgoingCount,
       bidirectionalRelationships |-> acc.bidirectionalRelationships]

(* ------------------------------ sorting ------------------------------- *)
\* Array.prototype.sort with a comparator that subtracts two numbers, on
\* entries paired with the number compared: stable, so an entry is inserted
\* after the last one whose key is not greater
RECURSIVE insertSorted(_, _)
insertSorted(sorted, e) ==
  IF sorted = <<>> THEN <<e>>
  ELSE IF sorted[Len(sorted)].key <= e.key THEN Append(sorted, e)
  ELSE Append(insertSorted(SubSeq(sorted, 1, Len(sorted) - 1), e),
              sorted[Len(sorted)])

RECURSIVE sortFrom(_, _, _)
sortFrom(keyed, i, sorted) ==
  IF i > Len(keyed) THEN sorted
  ELSE sortFrom(keyed, i + 1, insertSorted(sorted, keyed[i]))

sort(keyed) == sortFrom(keyed, 1, <<>>)

(* ------------------------- c4ContainerParser.ts ----------------------- *)
\* processStencilShape: a stencil becomes a round rectangle titled 'Web App'
processStencilShape(item) ==
  [id |-> item.id, type |-> item.type, shape |-> "round_rectangle",
   fillColor |-> WEB_BROWSER, x |-> item.x, y |-> item.y,
   content |-> Content("Web App", <<>>)]

\* collectShapesForProcessing: the shape map of the first pass.  Stencils
\* enter it converted; shapes enter it unless they lie in the legend or lack
\* a fill colour or a form.
collectShapesForProcessing(items) ==
  LET kept == SelectSeq(items, LAMBDA item :
                \/ item.type = "stencil"
                \/ /\ item.type = "shape"
                   /\ ~isInLegendArea(item)
                   /\ item.fillColor # ""
                   /\ item.shape # "")
  IN  [i \in 1..Len(kept) |->
         IF kept[i].type = "stencil" THEN processStencilShape(kept[i]) ELSE kept[i]]

\* determineContainerType
determineContainerType(shape, name) ==
  IF shape.shape = "can" THEN "Database"
  ELSE IF includes(name, "web") THEN "Web App"
  ELSE IF includes(name, "mobile") THEN "Mobile App"
  ELSE "Container"

\* the legend and placeholder texts processShapeIntoModel skips
isPlaceholder(content) ==
  LET text == cleanContent(content)
      one(s) == Len(text) = 1 /\ toLowerCase(text[1]) = s
  IN  \/ one("container")
      \/ one("role")
      \/ one("core system name")
      \/ one("supporting system")
      \/ one("optional description")
      \/ includes(text, "delete this placeholder")
      \/ includes(text, "create a new")

\* desc.replace('Node.ks', 'Node.js'): the first occurrence only
fixNodeKs(desc) ==
  IF \E i \in 1..Len(desc) : desc[i] = <<"Node.ks">>
  THEN LET k == CHOOSE i \in 1..Len(desc) :
                  /\ desc[i] = <<"Node.ks">>
                  /\ \A j \in 1..(i - 1) : desc[j] # <<"Node.ks">>
       IN  [desc EXCEPT ![k] = <<"Node.js">>]
  ELSE desc

\* a container entry with its counts looked up by name
containerEntry(name, type, desc, incomingCount, outgoingCount) ==
  [name |-> name, type |-> type, description |-> desc,
   in |-> Get(incomingCount, name), out |-> Get(outgoingCount, name)]

\* state.model.containers.push(...) unless the name was seen
pushContainer(state, name, type, desc, incomingCount, outgoingCount) ==
  IF name \notin state.containerNames
  THEN [state EXCEPT
          !.containers = Append(@, containerEntry(name, type, desc,
                                                  incomingCount, outgoingCount)),
          !.containerNames = @ \cup {name}]
  ELSE state

\* processShapeIntoModel
processShapeIntoModel(state, shape, items, incomingCount, outgoingCount) ==
  IF shape.content = NoText THEN state
  ELSE IF isPlaceholder(shape.content) THEN state
  ELSE
    LET parsed == parseHtmlContent(shape.content)
        name   == IF parsed.title # <<>> THEN parsed.title
                  ELSE cleanContent(shape.content)
        desc   == fixNodeKs(parsed.description)
    IN  IF name = <<>> THEN state
        ELSE IF isPerson(shape, items)
        THEN [state EXCEPT !.people = Append(@, [name |-> name])]
        ELSE IF shape.shape = "round_rectangle"
        THEN pushContainer(state, name, determineContainerType(shape, name),
                           desc, incomingCount, outgoingCount)
        ELSE IF shape.shape = "can"
        THEN pushContainer(state, name, "Database", desc,
                           incomingCount, outgoingCount)
        ELSE IF shape.shape = "rectangle"
        THEN IF includes(name, "web")
             THEN pushContainer(state, name, "Web App", desc,
                                incomingCount, outgoingCount)
             ELSE IF includes(name, "mobile")
             THEN pushContainer(state, name, "Mobile App", desc,
                                incomingCount, outgoingCount)
             ELSE [state EXCEPT !.systems =
                     Append(@, [name |-> name, description |-> desc,
                                in  |-> Get(incomingCount, name),
                                out |-> Get(outgoingCount, name)])]
        ELSE state

RECURSIVE processAllShapesFrom(_, _, _, _, _, _)
processAllShapesFrom(shapeMap, i, items, incomingCount, outgoingCount, state) ==
  IF i > Len(shapeMap) THEN state
  ELSE processAllShapesFrom(shapeMap, i + 1, items, incomingCount, outgoingCount,
         processShapeIntoModel(state, shapeMap[i], items,
                               incomingCount, outgoingCount))

\* a processing state that keeps the container names of the model the
\* preceding container parse returned
newProcessingState_kept ==
  [people |-> <<>>, containers |-> <<>>, systems |-> <<>>,
   containerNames |->
     IF result.by = "parseFrameToC4Container" /\ result.res.hasModel
     THEN {result.res.model.containers[i].name :
             i \in 1..Len(result.res.model.containers)}
     ELSE {}]
\* the processing state parseFrameToC4Container creates on every call:
\* empty lists and containerNames: new Set()
newProcessingState ==
  [people |-> <<>>, containers |-> <<>>, systems |-> <<>>,
   containerNames |-> {}]

\* processAllShapesIntoModel: the shape map in insertion order
processAllShapesIntoModel(shapeMap, items, incomingCount, outgoingCount) ==
  processAllShapesFrom(shapeMap, 1, items, incomingCount, outgoingCount,
    newProcessingState)

\* a failed validation that pushes no message
bidirectionalErrors_silent(pairs) == <<>>
\* the error list of a failed validation: summary line, one line per
\* relationship, remediation hint
bidirectionalErrors(pairs) ==
  <<[kind |-> "summary", count |-> Len(pairs)]>>
  \o [i \in 1..Len(pairs) |->
        [kind |-> "pair", first |-> pairs[i].source, second |-> pairs[i].target]]
  \o <<[kind |-> "hint"]>>

\* a validation that also rejects a model without containers
validateAndReturnContainerResult_strict(model, bidirectionalRelationships) ==
  IF Len(bidirectionalRelationships) > 0 \/ Len(model.containers) = 0
  THEN [hasModel |-> FALSE, warnings |-> <<>>,
        errors |-> bidirectionalErrors(bidirectionalRelationships)]
  ELSE [hasModel |-> TRUE, model |-> model, warnings |-> <<>>, errors |-> <<>>]
\* validateAndReturnContainerResult
validateAndReturnContainerResult(model, bidirectionalRelationships) ==
  IF Len(bidirectionalRelationships) > 0
  THEN [hasModel |-> FALSE, warnings |-> <<>>,
        errors |-> bidirectionalErrors(bidirectionalRelationships)]
  ELSE [hasModel |-> TRUE, model |-> model, warnings |-> <<>>, errors |-> <<>>]

\* parseFrameToC4Container, linked with the first processConnectors of
\* c4Utils.ts (the copy that exports the isPerson it imports); the call is
\* taken with the value the promise resolves to
parseFrameToC4Container(items) ==
  LET shapeMap == collectShapesForProcessing(items)
      cs       == SelectSeq(items, LAMBDA item :
                    item.type = "connector" /\ ~isInLegendArea(item))
      conn     == processConnectors(cs, shapeMap)
      state    == processAllShapesIntoModel(shapeMap, items,
                    conn.incomingCount, conn.outgoingCount)
      model    == [level |-> "Container", people |-> state.people,
                   containers |-> state.containers, systems |-> state.systems,
                   integrations |-> conn.integrations]
  IN  [by |-> "parseFrameToC4Container", link |-> "processConnectors",
       items |-> items, shapeMap |-> shapeMap, connectors |-> cs, conn |-> conn,
       res |-> validateAndReturnContainerResult(model,
                 conn.bidirectionalRelationships)]

(* ------------------------------ part_010 ------------------------------ *)
\* entries without their sort keys
items_of(keyed) == [i \in 1..Len(keyed) |-> keyed[i].item]

\* people.sort((a, b) => a.x - b.x)
sortByX(keyed) == sort(keyed)

\* title || cleanContent(content) || fallback
nameOr(shape, fallback) ==
  IF shapeTitle(shape) # <<>> THEN shapeTitle(shape) ELSE <<fallback>>

\* parseFrameToC4Context of part_010, linked with the second copy of
\* processConnectors
parseFrameToC4Context_10(items) ==
  LET shapeMap == SelectSeq(items, LAMBDA item :
                    /\ item.type = "shape"
                    /\ ~isInLegendArea(item)
                    /\ item.fillColor # ""
                    /\ item.shape # "")
      personShapes == SelectSeq(shapeMap, LAMBDA s :
                        s.fillColor = PERSON /\ s.shape = "round_rectangle")
      coreShapes   == SelectSeq(shapeMap, LAMBDA s :
                        s.fillColor = CORE_SYSTEM /\ s.shape = "round_rectangle")
      supportingShapes == SelectSeq(shapeMap, LAMBDA s :
                        s.fillColor = SUPPORTING_SYSTEM /\ s.shape = "rectangle")
      people == [i \in 1..Len(personShapes) |->
                   [key  |-> personShapes[i].x,
                    item |-> [name |-> nameOr(personShapes[i], "Unnamed Person")]]]
      cs   == SelectSeq(items, LAMBDA item :
                item.type = "connector" /\ ~isInLegendArea(item))
      conn == processConnectors_2(cs, shapeMap)
      coreSystems == [i \in 1..Len(coreShapes) |->
                        LET name == nameOr(coreShapes[i], "Unnamed System")
                        IN  [name |-> name, type |-> "Core", description |-> <<>>,
                             in  |-> Get(conn.incomingCount, name),
                             out |-> Get(conn.outgoingCount, name)]]
      supportingSystems == [i \in 1..Len(supportingShapes) |->
                        LET name == nameOr(supportingShapes[i], "Unnamed System")
                        IN  [key  |-> supportingShapes[i].x,
                             item |-> [name |-> name, type |-> "External",
                                       description |->
                                         parseHtmlContent(supportingShapes[i].content).description,
                                       in  |-> Get(conn.incomingCount, name),
                                       out |-> Get(conn.outgoingCount, name)]]]
      model == [level |-> "Context",
                people |-> items_of(sortByX(people)),
                systems |-> coreSystems \o items_of(sortByX(supportingSystems)),
                integrations |-> conn.integrations]
  IN  [by |-> "parseFrameToC4Context_10", link |-> "processConnectors_2",
       items |-> items, shapeMap |-> shapeMap, connectors |-> cs, conn |-> conn,
       res |-> IF Len(conn.bidirectionalRelationships) > 0
               THEN [hasModel |-> FALSE, warnings |-> <<>>,
                     errors |-> bidirectionalErrors(conn.bidirectionalRelationships)]
               ELSE [hasModel |-> TRUE, model |-> model,
                     warnings |-> <<>>, errors |-> <<>>]]

(* ------------------------------ part_009 ------------------------------ *)
\* shapes.find(s => cleanContent(s.content) === name)?.x || 0
xOfName(shapes, name) ==
  IF \E i \in 1..Len(shapes) : cleanContent(shapes[i].content) = name
  THEN shapes[CHOOSE i \in 1..Len(shapes) :
                /\ cleanContent(shapes[i].content) = name
                /\ \A j \in 1..(i - 1) : cleanContent(shapes[j].content) # name].x
  ELSE 0

\* sort((a, b) => (shapeA?.x || 0) - (shapeB?.x || 0)) on named entries
sortByShapeX(entries, shapes) ==
  items_of(sort([i \in 1..Len(entries) |->
                   [key |-> xOfName(shapes, entries[i].name), item |-> entries[i]]]))

\* title || cleanContent(content) with the parseHtmlContent of part_007
shapeName_7(shape) ==
  LET title == parseHtmlContent_7(shape.content).title
  IN  IF title # <<>> THEN title ELSE cleanContent(shape.content)

\* the errors built from the pair keys: pairKey.split('-') gives the ids
pairKeyErrors(pairKeys) ==
  <<[kind |-> "summary", count |-> Len(pairKeys)]>>
  \o [i \in 1..Len(pairKeys) |->
        [kind |-> "pair", first |-> <<pairKeys[i][1]>>, second |-> <<pairKeys[i][2]>>]]
  \o <<[kind |-> "hint"]>>

isCoreSystem(shape) ==
  shape.shape = "round_rectangle" /\ shape.fillColor = CORE_SYSTEM

isSupportingSystem(shape) == shape.shape = "rectangle"

systemEntry(shape, type, conn) ==
  LET name == shapeName_7(shape)
  IN  [name |-> name, type |-> type,
       description |-> parseHtmlContent_7(shape.content).description,
       in  |-> Get(conn.incomingCount, name),
       out |-> Get(conn.outgoingCount, name)]

\* parseFrameToC4Context of part_009 (first copy), linked with the
\* processConnectors of part_007
parseFrameToC4Context_9(items) ==
  LET shapes == SelectSeq(items, LAMBDA item : item.type = "shape")
      cs     == SelectSeq(items, LAMBDA item : item.type = "connector")
      conn   == processConnectors_7(cs, shapes)
      personShapes == SelectSeq(shapes, LAMBDA s : isPerson(s, items))
      coreShapes   == SelectSeq(shapes, LAMBDA s :
                        ~isPerson(s, items) /\ isCoreSystem(s))
      supportingShapes == SelectSeq(shapes, LAMBDA s :
                        ~isPerson(s, items) /\ ~isCoreSystem(s)
                        /\ isSupportingSystem(s))
      people == [i \in 1..Len(personShapes) |->
                   [name |-> shapeName_7(personShapes[i])]]
      coreSystems == [i \in 1..Len(coreShapes) |->
                        systemEntry(coreShapes[i], "Core", conn)]
      supportingSystems == [i \in 1..Len(supportingShapes) |->
                        systemEntry(supportingShapes[i], "External", conn)]
      model == [level |-> "Context",
                people |-> sortByShapeX(people, shapes),
                systems |-> coreSystems \o sortByShapeX(supportingSystems, shapes),
                integrations |-> conn.integrations]
      empty == [level |-> "Context", people |-> <<>>, systems |-> <<>>,
                integrations |-> <<>>]
  IN  [by |-> "parseFrameToC4Context_9", link |-> "processConnectors_7",
       items |-> items, shapeMap |-> shapes, connectors |-> cs, conn |-> conn,
       res |-> IF Len(items) = 0
               THEN [hasModel |-> TRUE, model |-> empty,
                     warnings |-> <<>>, errors |-> <<>>]
               ELSE IF Len(conn.bidirectionalRelationships) > 0
               THEN [hasModel |-> FALSE, warnings |-> <<>>,
                     errors |-> pairKeyErrors(conn.bidirectionalRelationships)]
               ELSE [hasModel |-> TRUE, model |-> model,
                     warnings |-> <<>>, errors |-> <<>>]]

(* ------------------------------ part_006 ------------------------------ *)
\* determineContainerType of part_006, on the shape's content
determineContainerType_6(shape, content) ==
  IF shape.shape = "can" THEN "Database"
  ELSE IF shape.shape = "rectangle" /\ includes(content, "web") THEN "Web App"
  ELSE IF shape.shape = "rectangle" /\ includes(content, "mobile") THEN "Mobile App"
  ELSE IF includes(content, "db") \/ includes(content, "database") THEN "Database"
  ELSE "Container"

\* the entries pushed with dependencies {in: 0, out: 0}
entry_6(name, type, description) ==
  [name |-> name, type |-> type, description |-> description,
   in |-> 0, out |-> 0]

\* processShapeIntoModel of part_006
processShapeIntoModel_6(model, shape, items) ==
  IF isInLegendArea(shape) THEN model
  ELSE IF shape.fillColor = "" \/ shape.shape = "" THEN model
  ELSE
    LET name        == shapeName_7(shape)
        description == parseHtmlContent_7(shape.content).description
        type        == determineContainerType_6(shape, cleanContent(shape.content))
    IN  IF name = <<>> THEN model
        ELSE IF shape.shape = "rectangle"
        THEN IF type = "Web App" \/ type = "Mobile App"
             THEN [model EXCEPT !.containers =
                     Append(@, entry_6(name, type, description))]
             ELSE [model EXCEPT !.systems =
                     Append(@, entry_6(name, "External", description))]
        ELSE IF isPerson(shape, items)
        THEN [model EXCEPT !.people = Append(@, [name |-> name])]
        ELSE IF shape.fillColor = EXTERNAL_SYSTEM
        THEN [model EXCEPT !.systems =
                Append(@, entry_6(name, "External", description))]
        ELSE IF \/ shape.fillColor = CONTAINER
                \/ shape.fillColor = WEB_BROWSER
                \/ shape.shape = "can"
        THEN IF \E i \in 1..Len(model.containers) : model.containers[i].name = name
             THEN model
             ELSE [model EXCEPT !.containers =
                     Append(@, entry_6(name, type, description))]
        ELSE model

RECURSIVE processShapesFrom_6(_, _, _, _)
processShapesFrom_6(shapeSeq, i, items, model) ==
  IF i > Len(shapeSeq) THEN model
  ELSE processShapesFrom_6(shapeSeq, i + 1, items,
                           processShapeIntoModel_6(model, shapeSeq[i], items))

\* container.dependencies = {in: incomingCount.get(name) || 0, out: ...}
withDependencies(entries, conn) ==
  [i \in 1..Len(entries) |->
     [entries[i] EXCEPT !.in  = Get(conn.incomingCount, entries[i].name),
                        !.out = Get(conn.outgoingCount, entries[i].name)]]

typeOrder(type) ==
  CASE type = "Web App"    -> 0
    [] type = "Mobile App" -> 1
    [] type = "Container"  -> 2
    [] type = "Database"   -> 3

\* the position of a name among the names of the boards under
\* String.prototype.localeCompare
localeRank(name) ==
  CASE name = <<"Admin">>          -> 1
    [] name = <<"Auth Service">>   -> 2
    [] name = <<"Email System">>   -> 3
    [] name = <<"Employee">>       -> 4
    [] name = <<"Manager">>        -> 5
    [] name = <<"Mobile App">>     -> 6
    [] name = <<"Payroll">>        -> 7
    [] name = <<"Talent API">>     -> 8
    [] name = <<"Talent DB">>      -> 9
    [] name = <<"Talent Systems">> -> 10
    [] name = <<"Talent Web App">> -> 11
    [] name = <<"Web Portal">>     -> 12
    [] OTHER                       -> 13

\* containers.sort: by typeOrder, then by a.name.localeCompare(b.name);
\* the sort being stable, this is the order by name re-sorted by type
sortContainers(containers) ==
  LET byName == items_of(sort([i \in 1..Len(containers) |->
                  [key |-> localeRank(containers[i].name), item |-> containers[i]]]))
  IN  items_of(sort([i \in 1..Len(byName) |->
                  [key |-> typeOrder(byName[i].type), item |-> byName[i]]]))

\* parseFrameToC4Container of part_006, linked with the processConnectors
\* of part_007
parseFrameToC4Container_6(items) ==
  LET shapeSeq == SelectSeq(items, LAMBDA item : item.type = "shape")
      cs       == SelectSeq(items, LAMBDA item : item.type = "connector")
      conn     == processConnectors_7(cs, shapeSeq)
      state    == processShapesFrom_6(shapeSeq, 1, items,
                    [people |-> <<>>, containers |-> <<>>, systems |-> <<>>])
      model    == [level |-> "Container",
                   people |-> sortByShapeX(state.people, shapeSeq),
                   containers |-> sortContainers(withDependencies(state.containers, conn)),
                   systems |-> sortByShapeX(withDependencies(state.systems, conn), shapeSeq),
                   integrations |-> conn.integrations]
      empty    == [level |-> "Container", people |-> <<>>, containers |-> <<>>,
                   systems |-> <<>>, integrations |-> <<>>]
  IN  [by |-> "parseFrameToC4Container_6", link |-> "processConnectors_7",
       items |-> items, shapeMap |-> shapeSeq, connectors |-> cs, conn |-> conn,
       res |-> IF Len(items) = 0
               THEN [hasModel |-> TRUE, model |-> empty,
                     warnings |-> <<>>, errors |-> <<>>]
               ELSE IF Len(conn.bidirectionalRelationships) > 0
               THEN [hasModel |-> FALSE, warnings |-> <<>>,
                     errors |-> pairKeyErrors(conn.bidirectionalRelationships)]
               ELSE [hasModel |-> TRUE, model |-> model,
                     warnings |-> <<>>, errors |-> <<>>]]

(* ------------------------------ actions ------------------------------- *)
NoResult == [by |-> "none"]

\* the exporter before its first export
NoExport ==
  /\ selectedFrameId = ""
  /\ exportType = "context"
  /\ warnings = <<>>
  /\ errors = <<>>
  /\ downloads = <<>>
  /\ promise = "none"
  /\ fault = "none"

Init ==
  /\ board \in Boards
  /\ component = "C4Exporter"
  /\ shapeIds = <<>>
  /\ connectorIds = <<>>
  /\ pc = "editing"
  /\ result = NoResult
  /\ NoExport

\* the user draws one more shape of the board inside the frame
AddShape ==
  /\ pc = "editing"
  /\ Len(shapeIds) < MaxShapes
  /\ \E id \in BoardShapes(board) \ Range(shapeIds) : shapeIds' = Append(shapeIds, id)
  /\ UNCHANGED <<board, connectorIds, pc, result>>
  /\ UNCHANGED exportVars

\* the user draws one more connector of the board inside the frame
AddConnector ==
  /\ pc = "editing"
  /\ Len(connectorIds) < MaxConnectors
  /\ \E id \in BoardConnectors(board) \ Range(connectorIds) :
       connectorIds' = Append(connectorIds, id)
  /\ UNCHANGED <<board, shapeIds, pc, result>>
  /\ UNCHANGED exportVars

\* the frame's items as miro.board.get() returns them
FrameItems == FrameShapes \o FrameConnectors

\* Each parser runs on the frame as it is drawn (pc goes from "editing" to
\* "done") and may run once more on the unchanged frame, after whichever
\* parse came first (pc goes from "done" to "again").

\* export of the frame as a container diagram
ParseContainer ==
  /\ pc \in {"editing", "done"}
  /\ result' = parseFrameToC4Container(FrameItems)
  /\ pc' = IF pc = "editing" THEN "done" ELSE "again"
  /\ UNCHANGED <<board, shapeIds, connectorIds>>
  /\ UNCHANGED exportVars

\* export of the frame as a context diagram (part_010)
ParseContext_10 ==
  /\ pc \in {"editing", "done"}
  /\ result' = parseFrameToC4Context_10(FrameItems)
  /\ pc' = IF pc = "editing" THEN "done" ELSE "again"
  /\ UNCHANGED <<board, shapeIds, connectorIds>>
  /\ UNCHANGED exportVars

\* export of the frame as a context diagram (part_009)
ParseContext_9 ==
  /\ pc \in {"editing", "done"}
  /\ result' = parseFrameToC4Context_9(FrameItems)
  /\ pc' = IF pc = "editing" THEN "done" ELSE "again"
  /\ UNCHANGED <<board, shapeIds, connectorIds>>
  /\ UNCHANGED exportVars

\* export of the frame as a container diagram (part_006)
ParseContainer_6 ==
  /\ pc \in {"editing", "done"}
  /\ result' = parseFrameToC4Container_6(FrameItems)
  /\ pc' = IF pc = "editing" THEN "done" ELSE "again"
  /\ UNCHANGED <<board, shapeIds, connectorIds>>
  /\ UNCHANGED exportVars

Next ==
  \/ AddShape
  \/ AddConnector
  \/ ParseContainer
  \/ ParseContext_10
  \/ ParseContext_9
  \/ ParseContainer_6

Spec == Init /\ [][Next]_vars

(* ------------------- C4Exporter.tsx, part_003, Page -------------------- *)
MaxDownloads == 2

\* the two copies of the component
Components == {"C4Exporter", "part_003"}

\* The frames of the dropdown: one that parses to a model, one with a
\* connector that has an arrowhead on both ends, one with two connectors
\* between the same two shapes, one without items, and "gone", an option
\* whose frame the lookup of the handler no longer finds.
Frames == {"ok", "bidirectional", "twice", "empty", "gone"}

FrameBoard(id) == IF id = "ok" THEN "containers" ELSE "links"

FrameShapeIds(id) ==
  CASE id = "ok"            -> <<"a1", "d1">>
    [] id = "bidirectional" -> <<"s3", "s4">>
    [] id = "twice"         -> <<"s3", "s4">>
    [] OTHER                -> <<>>

FrameConnectorIds(id) ==
  CASE id = "ok"            -> <<"y1">>
    [] id = "bidirectional" -> <<"c5">>
    [] id = "twice"         -> <<"c2", "c3">>
    [] OTHER                -> <<>>

\* the failures of one export: none, miro.board.get() rejects, the parser
\* throws
Faults == {"none", "boardRejected", "parserThrew"}

\* the parser a call resolves to among the copies of its name
parseBy(by, items) ==
  CASE by = "parseFrameToC4Container"   -> parseFrameToC4Container(items)
    [] by = "parseFrameToC4Context_10"  -> parseFrameToC4Context_10(items)
    [] by = "parseFrameToC4Context_9"   -> parseFrameToC4Context_9(items)
    [] by = "parseFrameToC4Container_6" -> parseFrameToC4Container_6(items)

\* the copies behind parseFrameToC4Context and parseFrameToC4Container
parsersOf(type) ==
  IF type = "context"
  THEN {"parseFrameToC4Context_10", "parseFrameToC4Context_9"}
  ELSE {"parseFrameToC4Container", "parseFrameToC4Container_6"}

\* the ParseResult each copy resolves to for each frame of the dropdown
parsedFrame ==
  [id \in Frames, by \in parsersOf("context") \cup parsersOf("container") |->
     LET ids == FrameShapeIds(id) \o FrameConnectorIds(id)
     IN  parseBy(by, [i \in 1..Len(ids) |-> Item(ids[i])])]

\* Page.handleWarnings: setWarnings(newWarnings)
handleWarnings(newWarnings) == newWarnings

\* a handler that keeps the errors it had
handleErrors_appended(newErrors) == errors \o newErrors
\* Page.handleErrors: setErrors(newErrors)
handleErrors(newErrors) == newErrors

\* a.download: the frame's title with the extension .yaml
fileName(title) == [title |-> title, extension |-> "yaml"]

\* a try body that goes on to the download whatever the parser returned
exported_through(res, title) ==
  [warnings  |-> IF Len(res.warnings) > 0 THEN handleWarnings(res.warnings)
                 ELSE warnings,
   errors    |-> errors,
   downloads |-> Append(downloads, fileName(title)),
   promise   |-> "fulfilled"]
\* the try body of handleExport after the parse: warnings to onWarnings;
\* errors to onErrors and return; return without a model; else the download
exported(res, title) ==
  [warnings  |-> IF Len(res.warnings) > 0 THEN handleWarnings(res.warnings)
                 ELSE warnings,
   errors    |-> IF Len(res.errors) > 0 THEN handleErrors(res.errors)
                 ELSE errors,
   downloads |-> IF Len(res.errors) = 0 /\ res.hasModel
                 THEN Append(downloads, fileName(title))
                 ELSE downloads,
   promise   |-> "fulfilled"]

\* a handler without the catch block: the promise is rejected
caught_rethrown(message) ==
  [warnings |-> warnings, errors |-> errors, downloads |-> downloads,
   promise |-> "rejected"]
\* the catch block: onErrors?.([`Error: ${error.message}`])
caught(message) ==
  [warnings  |-> warnings,
   errors    |-> handleErrors(<<[kind |-> "Error", message |-> message]>>),
   downloads |-> downloads,
   promise   |-> "fulfilled"]

InitExport ==
  /\ board = "links"
  /\ shapeIds = <<>>
  /\ connectorIds = <<>>
  /\ pc = "idle"
  /\ result = NoResult
  /\ component \in Components
  /\ NoExport

\* the dropdown's onChange: setSelectedFrameId; the select is disabled
\* while isLoading
setSelectedFrameId ==
  /\ pc = "idle"
  /\ \E id \in Frames \cup {""} :
       /\ selectedFrameId' = id
       /\ board' = FrameBoard(id)
       /\ shapeIds' = FrameShapeIds(id)
       /\ connectorIds' = FrameConnectorIds(id)
  /\ UNCHANGED <<pc, result, component, exportType, warnings, errors, downloads, promise, fault>>

\* the handler up to its first await: setIsLoading(true), onWarnings([]),
\* onErrors?.([])
started ==
  /\ pc = "idle"
  /\ selectedFrameId # ""
  /\ Len(downloads) < MaxDownloads
  /\ pc' = "exporting"
  /\ warnings' = handleWarnings(<<>>)
  /\ errors' = handleErrors(<<>>)
  /\ promise' = "pending"
  /\ UNCHANGED <<board, shapeIds, connectorIds, result, component, selectedFrameId, downloads, fault>>

\* the message of the Error the catch block receives
messageOf(failure) ==
  CASE failure = "boardRejected" -> "board query rejected"
    [] failure = "frameNotFound" -> "Selected frame not found"
    [] failure = "parserThrew"   -> "parser threw"

\* handleExport of C4Exporter.tsx, which exports context diagrams
handleExport ==
  /\ component = "C4Exporter"
  /\ exportType' = "context"
  /\ started

\* handleExport(type) of part_003
handleExport_3 ==
  /\ component = "part_003"
  /\ exportType' \in {"context", "container"}
  /\ started

\* the awaits of the try block: the board query is rejected, the selected
\* frame is not found, the parser throws, or the parser resolves to the
\* ParseResult of one of the copies of its name
awaited ==
  /\ pc = "exporting"
  /\ \E f \in Faults : \E by \in parsersOf(exportType) :
       /\ fault' = IF f = "none" /\ selectedFrameId = "gone" THEN "frameNotFound" ELSE f
       /\ result' = IF f = "none" /\ selectedFrameId # "gone"
                    THEN parsedFrame[selectedFrameId, by] ELSE NoResult
  /\ pc' = "parsed"
  /\ UNCHANGED <<board, shapeIds, connectorIds, component, selectedFrameId, exportType, warnings, errors, downloads, promise>>

\* setIsLoading(false) as the last statement of the try block
setIsLoadingFinally_inTry(failure) == IF failure = "none" THEN "idle" ELSE "loading"
\* finally { setIsLoading(false) }: whatever the try block did
setIsLoadingFinally(failure) == "idle"

\* the rest of the handler: the try body after the parse or the catch
\* block, and finally setIsLoading(false)
resumed ==
  LET out == IF fault # "none" THEN caught(messageOf(fault))
             ELSE exported(result.res, selectedFrameId)
  IN  /\ pc = "parsed"
      /\ warnings' = out.warnings
      /\ errors' = out.errors
      /\ downloads' = out.downloads
      /\ promise' = out.promise
      /\ pc' = setIsLoadingFinally(fault)
      /\ UNCHANGED <<board, shapeIds, connectorIds, result, component, selectedFrameId, exportType, fault>>

NextExport ==
  \/ setSelectedFrameId
  \/ handleExport
  \/ handleExport_3
  \/ awaited
  \/ resumed

ExportSpec == InitExport /\ [][NextExport]_vars

(* ----------------------------- properties ----------------------------- *)
Parsed == pc = "done"

\* the sequence without its i-th element
RemoveAt(seq, i) == SubSeq(seq, 1, i - 1) \o SubSeq(seq, i + 1, Len(seq))

\* the frame's items without its i-th connector
WithoutConnector(i) == FrameShapes \o RemoveAt(FrameConnectors, i)

\* the parse that produced `result`, run on other items
Reparse(items) ==
  CASE result.by = "parseFrameToC4Container"   -> parseFrameToC4Container(items)
    [] result.by = "parseFrameToC4Context_10"  -> parseFrameToC4Context_10(items)
    [] result.by = "parseFrameToC4Context_9"   -> parseFrameToC4Context_9(items)
    [] result.by = "parseFrameToC4Container_6" -> parseFrameToC4Container_6(items)

Resolves(c, shapeMap) == MapHas(shapeMap, c.start) /\ MapHas(shapeMap, c.end)

BothArrows(c) == hasArrow(c.startStrokeCap) /\ hasArrow(c.endStrokeCap)

\* the parsers linked with the two processConnectors of c4Utils.ts, which
\* look at the arrowheads of a connector
ArrowParsers == {"parseFrameToC4Container", "parseFrameToC4Context_10"}

Rejected == ~result.res.hasModel /\ Len(result.res.errors) > 0

C7_UnresolvedDropped ==
  Parsed =>
    \A i \in 1..Len(FrameConnectors) :
      ~Resolves(FrameConnectors[i], result.shapeMap) =>
        /\ Reparse(WithoutConnector(i)).conn = result.conn
        /\ Reparse(WithoutConnector(i)).res = result.res

\* a parse of a frame that holds a dangling connector next to one that
\* yields an integration
C7_Witness ==
  /\ Parsed
  /\ result.by = "parseFrameToC4Container"
  /\ \E i \in 1..Len(FrameConnectors) :
       ~Resolves(FrameConnectors[i], result.shapeMap)
  /\ Len(result.conn.integrations) > 0

\* C2: a connector with an arrowhead on both ends is never emitted as an
\* integration and never counted: the integrations and both count maps are
\* those processConnectors gives without that connector.
C2_BidirectionalIgnored ==
  Parsed =>
    \A i \in 1..Len(FrameConnectors) :
      BothArrows(FrameConnectors[i]) =>
        LET without == Reparse(WithoutConnector(i)).conn
        IN  /\ without.integrations = result.conn.integrations
            /\ without.incomingCount = result.conn.incomingCount
            /\ without.outgoingCount = result.conn.outgoingCount

\* the nodes of a model: its containers, if it has any, and its systems
Nodes(model) ==
  (IF "containers" \in DOMAIN model THEN model.containers ELSE <<>>)
  \o model.systems

IsActorName(model, name) ==
  \E i \in 1..Len(model.people) : model.people[i].name = name

\* C3: for every node N of the emitted model, N's incoming count is the
\* number of emitted integrations that depend on N's name and join two
\* non-actors, and N's outgoing count is the number of such integrations
\* whose source is N's name.
C3_DegreeInvariant ==
  (Parsed /\ result.by \in ArrowParsers /\ result.res.hasModel) =>
    LET model == result.res.model
        ints  == model.integrations
        plain == {i \in 1..Len(ints) :
                    /\ ~IsActorName(model, ints[i].source)
                    /\ ~IsActorName(model, ints[i].dependsOn)}
    IN  \A k \in 1..Len(Nodes(model)) :
          LET N == Nodes(model)[k]
          IN  /\ N.in  = Cardinality({i \in plain : ints[i].dependsOn = N.name})
              /\ N.out = Cardinality({i \in plain : ints[i].source = N.name})

\* the shape is one that the container parser put into the people list
ActorInModel(shape) ==
  /\ isPerson(shape, result.items)
  /\ IsActorName(result.res.model, shapeTitle(shape))

\* the connector yields an integration: both ends are named shapes of the
\* shape map and it is not bidirectional
Emitted(c) ==
  /\ Resolves(c, result.shapeMap)
  /\ ~BothArrows(c)
  /\ shapeTitle(MapGet(result.shapeMap, c.start)) # <<>>
  /\ shapeTitle(MapGet(result.shapeMap, c.end)) # <<>>

\* C4: a connector one of whose end shapes is an actor of the output model
\* increments no incoming and no outgoing count, while its integration is
\* emitted.
C4_ActorsNotCounted ==
  (Parsed /\ result.by = "parseFrameToC4Container" /\ result.res.hasModel) =>
    \A i \in 1..Len(FrameConnectors) :
      LET c == FrameConnectors[i]
      IN  (/\ Emitted(c)
           /\ \/ ActorInModel(MapGet(result.shapeMap, c.start))
              \/ ActorInModel(MapGet(result.shapeMap, c.end)))
          => LET without == Reparse(WithoutConnector(i)).conn
             IN  /\ without.incomingCount = result.conn.incomingCount
                 /\ without.outgoingCount = result.conn.outgoingCount
                 /\ Len(result.conn.integrations) = Len(without.integrations) + 1

\* the shape is no actor under either parser's rule
NonActor(shape) ==
  /\ ~isPerson(shape, result.items)
  /\ ~(shape.fillColor = PERSON /\ shape.shape = "round_rectangle")

\* C5: for a connector between named non-actors S (start) and T (end): with
\* an arrowhead on the end only, outgoing(S) and incoming(T) grow by one;
\* with an arrowhead on the start only, outgoing(T) and incoming(S) grow by
\* one; with no arrowhead no count changes.
C5_DirectionFollowsArrowhead ==
  (Parsed /\ result.by \in ArrowParsers) =>
    \A i \in 1..Len(FrameConnectors) :
      LET c == FrameConnectors[i]
      IN  (/\ Emitted(c)
           /\ NonActor(MapGet(result.shapeMap, c.start))
           /\ NonActor(MapGet(result.shapeMap, c.end)))
          => LET S       == shapeTitle(MapGet(result.shapeMap, c.start))
                 T       == shapeTitle(MapGet(result.shapeMap, c.end))
                 without == Reparse(WithoutConnector(i)).conn
                 with    == result.conn
             IN  IF hasArrow(c.endStrokeCap)
                 THEN /\ Get(with.outgoingCount, S) = Get(without.outgoingCount, S) + 1
                      /\ Get(with.incomingCount, T) = Get(without.incomingCount, T) + 1
                 ELSE IF hasArrow(c.startStrokeCap)
                 THEN /\ Get(with.outgoingCount, T) = Get(without.outgoingCount, T) + 1
                      /\ Get(with.incomingCount, S) = Get(without.incomingCount, S) + 1
                 ELSE /\ with.outgoingCount = without.outgoingCount
                      /\ with.incomingCount = without.incomingCount

\* the name the parse gives a shape
NodeName(shape) ==
  IF result.link = "processConnectors_7" THEN shapeName_7(shape)
  ELSE shapeTitle(shape)

\* the error entry names the two ends of a connector of the frame
NamesEndpoints(entry) ==
  \E i \in 1..Len(result.connectors) :
    LET c == result.connectors[i]
    IN  /\ Resolves(c, result.shapeMap)
        /\ {entry.first, entry.second} =
             {NodeName(MapGet(result.shapeMap, c.start)),
              NodeName(MapGet(result.shapeMap, c.end))}

\* C6: when k >= 1 bidirectional pairs are detected the error list holds at
\* least k + 1 entries: a summary line with the count k, then one entry per
\* pair that names both ends by their node names, and a remediation hint.
C6_ErrorList ==
  Parsed =>
    LET k == Len(result.conn.bidirectionalRelationships)
        e == result.res.errors
    IN  k >= 1 =>
          /\ Len(e) >= k + 1
          /\ e[1] = [kind |-> "summary", count |-> k]
          /\ \A i \in 1..k : e[1 + i].kind = "pair" /\ NamesEndpoints(e[1 + i])
          /\ \E j \in 1..Len(e) : e[j].kind = "hint"

ContextParsers == {"parseFrameToC4Context_10", "parseFrameToC4Context_9"}

ContainerParsers == {"parseFrameToC4Container", "parseFrameToC4Container_6"}

\* the shapes the context parse that ran takes for people, core systems and
\* supporting systems, in discovery order
PersonShapes ==
  IF result.by = "parseFrameToC4Context_10"
  THEN SelectSeq(result.shapeMap, LAMBDA s :
         s.fillColor = PERSON /\ s.shape = "round_rectangle")
  ELSE SelectSeq(result.shapeMap, LAMBDA s : isPerson(s, result.items))

CoreShapes ==
  IF result.by = "parseFrameToC4Context_10"
  THEN SelectSeq(result.shapeMap, LAMBDA s :
         s.fillColor = CORE_SYSTEM /\ s.shape = "round_rectangle")
  ELSE SelectSeq(result.shapeMap, LAMBDA s :
         ~isPerson(s, result.items) /\ isCoreSystem(s))

SupportingShapes ==
  IF result.by = "parseFrameToC4Context_10"
  THEN SelectSeq(result.shapeMap, LAMBDA s :
         s.fillColor = SUPPORTING_SYSTEM /\ s.shape = "rectangle")
  ELSE SelectSeq(result.shapeMap, LAMBDA s :
         ~isPerson(s, result.items) /\ ~isCoreSystem(s) /\ isSupportingSystem(s))

\* the name the context parse that ran gives a shape
ContextName(shape, fallback) ==
  IF result.by = "parseFrameToC4Context_10" THEN nameOr(shape, fallback)
  ELSE shapeName_7(shape)

\* the entries are the discovered shapes, by name, in ascending order of x,
\* those with equal x in discovery order
LeftToRight(entries, discovered, fallback) ==
  /\ Len(entries) = Len(discovered)
  /\ \E perm \in [1..Len(discovered) -> 1..Len(discovered)] :
       /\ \A i, j \in 1..Len(discovered) : i # j => perm[i] # perm[j]
       /\ \A i \in 1..Len(discovered) :
            entries[i].name = ContextName(discovered[perm[i]], fallback)
       /\ \A i, j \in 1..Len(discovered) :
            i < j =>
              \/ discovered[perm[i]].x < discovered[perm[j]].x
              \/ /\ discovered[perm[i]].x = discovered[perm[j]].x
                 /\ perm[i] < perm[j]

\* C8: the people of the emitted model are in ascending order of the x of
\* their shapes, people at the same x in discovery order.
C8_ActorOrdering ==
  (Parsed /\ result.by \in ContextParsers /\ result.res.hasModel) =>
    LeftToRight(result.res.model.people, PersonShapes, "Unnamed Person")

\* C9: in the systems of the emitted context model the core systems come
\* first, in discovery order, and the external systems follow in ascending
\* order of the x of their shapes.
C9_SystemOrdering ==
  (Parsed /\ result.by \in ContextParsers /\ result.res.hasModel) =>
    LET systems == result.res.model.systems
        cores   == Len(CoreShapes)
    IN  /\ Len(systems) = cores + Len(SupportingShapes)
        /\ \A i \in 1..cores :
             /\ systems[i].type = "Core"
             /\ systems[i].name = ContextName(CoreShapes[i], "Unnamed System")
        /\ \A i \in (cores + 1)..Len(systems) : systems[i].type = "External"
        /\ LeftToRight(SubSeq(systems, cores + 1, Len(systems)),
                       SupportingShapes, "Unnamed System")

\* C10: the containers of the emitted container model are ordered by type,
\* Web App, Mobile App, Container, Database, and within one type by
\* ascending name, whatever order the host returned the shapes in.
C10_ContainerOrdering ==
  (Parsed /\ result.by \in ContainerParsers /\ result.res.hasModel) =>
    LET containers == result.res.model.containers
    IN  \A i, j \in 1..Len(containers) :
          i < j =>
            \/ typeOrder(containers[i].type) < typeOrder(containers[j].type)
            \/ /\ containers[i].type = containers[j].type
               /\ localeRank(containers[i].name) <= localeRank(containers[j].name)

\* C11: in every emitted model the numbers of the integrations are
\* 1, 2, ..., n in list order, whatever connectors were passed over.
C11_SequentialNumbering ==
  (Parsed /\ result.res.hasModel) =>
    \A i \in 1..Len(result.res.model.integrations) :
      result.res.model.integrations[i].number = i

\* a container model with an integration made from the second connector of
\* the frame, the first one having been passed over
C11_Witness ==
  /\ Parsed
  /\ result.by = "parseFrameToC4Container"
  /\ result.res.hasModel
  /\ Len(FrameConnectors) = 2
  /\ ~Emitted(FrameConnectors[1])
  /\ Emitted(FrameConnectors[2])
  /\ Len(result.res.model.integrations) = 1

\* the first shape of the shape map that the container parser gives the name
FirstNamed(name) ==
  result.shapeMap[CHOOSE i \in 1..Len(result.shapeMap) :
                    /\ shapeTitle(result.shapeMap[i]) = name
                    /\ \A j \in 1..(i - 1) : shapeTitle(result.shapeMap[j]) # name]

\* C12: in the emitted model no two nodes share a name, and a node is the
\* entry of the first shape of its name: the shapes of that name that come
\* later are dropped.
C12_DuplicateSuppression ==
  (Parsed /\ result.by = "parseFrameToC4Container" /\ result.res.hasModel) =>
    LET nodes == Nodes(result.res.model)
    IN  /\ \A i, j \in 1..Len(nodes) : i # j => nodes[i].name # nodes[j].name
        /\ \A i \in 1..Len(nodes) :
             nodes[i].description =
               fixNodeKs(parseHtmlContent(FirstNamed(nodes[i].name).content).description)

\* a round rectangle with a circle of the frame closer than 100 on the x
\* axis and 150 on the y axis
NearCircle(shape) ==
  /\ shape.shape = "round_rectangle"
  /\ \E i \in 1..Len(FrameShapes) :
       /\ FrameShapes[i].shape = "circle"
       /\ Abs(FrameShapes[i].x - shape.x) < 100
       /\ Abs(FrameShapes[i].y - shape.y) < 150

\* the parsers whose person rule the claim reads
PersonRuleParsers == {"parseFrameToC4Container", "parseFrameToC4Context_10"}

\* C13: a named shape of the frame outside the legend is emitted as a
\* person exactly when it is a round rectangle with a circle of the frame
\* within the proximity thresholds, whatever its colour.
C13_PersonByCircle ==
  (Parsed /\ result.by \in PersonRuleParsers /\ result.res.hasModel) =>
    \A i \in 1..Len(FrameShapes) :
      LET s == FrameShapes[i]
      IN  (s.type = "shape" /\ ~isInLegendArea(s) /\ shapeTitle(s) # <<>>) =>
            (IsActorName(result.res.model, shapeTitle(s)) <=> NearCircle(s))

\* the subtype the rule gives a shape: Database for a can, else Web App for
\* a rectangle or round rectangle with 'web' in its name, else Mobile App
\* with 'mobile' in its name, else Container
Subtype(shape) ==
  IF shape.shape = "can" THEN "Database"
  ELSE IF /\ shape.shape \in {"rectangle", "round_rectangle"}
          /\ includes(shapeTitle(shape), "web") THEN "Web App"
  ELSE IF includes(shapeTitle(shape), "mobile") THEN "Mobile App"
  ELSE "Container"

\* C14: in container mode every container of the model emitted for a shape
\* of the frame carries the subtype of the rule: Database for a can, else
\* Web App for 'web' in the name of a rectangle or round rectangle, else
\* Mobile App for 'mobile', else Container.
C14_ContainerSubtype ==
  (Parsed /\ result.by \in ContainerParsers /\ result.res.hasModel) =>
    \A i \in 1..Len(FrameShapes) :
      \A j \in 1..Len(result.res.model.containers) :
        LET s == FrameShapes[i]
            c == result.res.model.containers[j]
        IN  (s.type = "shape" /\ shapeTitle(s) # <<>> /\ c.name = shapeTitle(s)) =>
              c.type = Subtype(s)

\* the shapes of the frame that are children of the legend
LegendShapes == {i \in 1..Len(FrameShapes) : FrameShapes[i].id \in LegendChildrenIds}

\* the name is that of a person, container or system of the model
IsNodeName(model, name) ==
  \/ IsActorName(model, name)
  \/ \E i \in 1..Len(Nodes(model)) : Nodes(model)[i].name = name

C18_ErrorsBlockDownload ==
  [][/\ (pc = "parsed" /\ fault = "none" /\ Len(result.res.errors) > 0) =>
          (errors' = result.res.errors /\ downloads' = downloads)
     /\ (downloads' # downloads) =>
          /\ pc = "parsed"
          /\ fault = "none"
          /\ result.res.errors = <<>>
          /\ result.res.hasModel]_vars

\* an export that has ended on the errors of its parse, after an export that
\* offered a file
C18_Witness ==
  /\ pc = "idle"
  /\ promise = "fulfilled"
  /\ fault = "none"
  /\ result.by # "none"
  /\ Len(result.res.errors) > 0
  /\ errors = result.res.errors
  /\ Len(downloads) = 1

\* C19: a failure raised during an export (the board query rejected, the
\* selected frame not found, the parser throwing) is caught inside
\* handleExport: the error callback receives exactly one message, no file is
\* offered and the promise of handleExport is never rejected.
C19_FailuresCaught ==
  [][/\ promise' # "rejected"
     /\ (pc = "parsed" /\ fault # "none") =>
          /\ Len(errors') = 1
          /\ errors'[1] = [kind |-> "Error", message |-> messageOf(fault)]
          /\ downloads' = downloads
          /\ promise' = "fulfilled"]_vars

\* an export that has ended after its parser threw
C19_Witness ==
  /\ pc = "idle"
  /\ promise = "fulfilled"
  /\ fault = "parserThrew"
  /\ Len(errors) = 1

\* C20: every export clears the warnings and errors of the previous run
\* before it parses, and the diagnostics shown after an export are exactly
\* those of that export: the warnings and errors of its parse, or the one
\* message of its failure.
C20_DiagnosticsOfThisExport ==
  /\ pc \in {"exporting", "parsed"} => (warnings = <<>> /\ errors = <<>>)
  /\ (pc = "idle" /\ promise = "fulfilled") =>
       /\ warnings = IF fault = "none" THEN result.res.warnings ELSE <<>>
       /\ errors = IF fault = "none" THEN result.res.errors
                   ELSE <<[kind |-> "Error", message |-> messageOf(fault)]>>

\* an export has started after one that had ended on the message of its
\* failure, and has cleared it
C20_Witness ==
  /\ pc = "exporting"
  /\ promise = "pending"
  /\ fault # "none"
  /\ errors = <<>>
  /\ warnings = <<>>

\* the connector ends in an arrowhead on at least one side
ArrowTerminated(c) == hasArrow(c.startStrokeCap) \/ hasArrow(c.endStrokeCap)

\* the two connectors join the same two shapes, in either direction
SameTwoShapes(c, d) ==
  /\ c.start # c.end
  /\ {c.start, c.end} = {d.start, d.end}

\* the entries of an error list that name a pair
PairEntries(e) == SelectSeq(e, LAMBDA entry : entry.kind = "pair")

\* C21: when the frame's connectors are two arrow-terminated connectors
\* that join the same two named shapes, the parse produces no document, and
\* with it no relationship, and reports exactly one bidirectional pair.
C21_TwoConnectorsOnePair ==
  (/\ Parsed
   /\ Len(FrameConnectors) = 2
   /\ ArrowTerminated(FrameConnectors[1])
   /\ ArrowTerminated(FrameConnectors[2])
   /\ SameTwoShapes(FrameConnectors[1], FrameConnectors[2])
   /\ Resolves(FrameConnectors[1], result.shapeMap)
   /\ shapeTitle(MapGet(result.shapeMap, FrameConnectors[1].start)) # <<>>
   /\ shapeTitle(MapGet(result.shapeMap, FrameConnectors[1].end)) # <<>>) =>
    /\ ~result.res.hasModel
    /\ Len(PairEntries(result.res.errors)) = 1
    /\ Len(result.conn.bidirectionalRelationships) = 1

\* an arrowhead at the end of the connector and none at its start
EndArrowOnly(c) == hasArrow(c.endStrokeCap) /\ ~hasArrow(c.startStrokeCap)

\* C22: every connector with both ends in the shape map, both ends named
\* and an arrowhead at its end only adds exactly one to the outgoing count
\* of its start shape's name and one to the incoming count of its end
\* shape's name, also when the start shape is a person whose circle is in
\* the shape map: the counts are those of the frame without the connector,
\* plus one.
C22_SingleArrowCounted ==
  (Parsed /\ result.by \in ArrowParsers) =>
    \A i \in 1..Len(FrameConnectors) :
      LET c == FrameConnectors[i]
      IN  (/\ Resolves(c, result.shapeMap)
           /\ EndArrowOnly(c)
           /\ shapeTitle(MapGet(result.shapeMap, c.start)) # <<>>
           /\ shapeTitle(MapGet(result.shapeMap, c.end)) # <<>>) =>
            LET without == Reparse(WithoutConnector(i)).conn
                source  == shapeTitle(MapGet(result.shapeMap, c.start))
                target  == shapeTitle(MapGet(result.shapeMap, c.end))
            IN  /\ Get(result.conn.outgoingCount, source)
                     = Get(without.outgoingCount, source) + 1
                /\ Get(result.conn.incomingCount, target)
                     = Get(without.incomingCount, target) + 1

(* ------------------------- parseHtmlContent alone ---------------------- *)
MaxLines == 3

\* the texts of the contents parsed: a title, a second text and a third
Texts == {"Talent Systems", "Uses Outlook", "Payroll"}

\* the sequences over a set up to a length
SeqsUpTo(S, n) == UNION {[1..k -> S] : k \in 0..n}

\* the contents: with or without a <strong> span, and up to MaxLines lines
\* outside it
Contents ==
  {Content(strong, lines) : strong \in Texts \cup {""}, lines \in SeqsUpTo(Texts, MaxLines)}

InitHtml ==
  /\ board = "links"
  /\ shapeIds = <<>>
  /\ connectorIds = <<>>
  /\ pc = "content"
  /\ result = NoResult
  /\ component = "C4Exporter"
  /\ NoExport

\* one call of parseHtmlContent
ParseHtml ==
  /\ pc = "content"
  /\ \E content \in Contents :
       result' = [by |-> "parseHtmlContent", content |-> content,
                  parsed |-> parseHtmlContent(content)]
  /\ pc' = "parsedHtml"
  /\ UNCHANGED <<board, shapeIds, connectorIds>>
  /\ UNCHANGED exportVars

NextHtml == ParseHtml

HtmlSpec == InitHtml /\ [][NextHtml]_vars

ParsedHtml == pc = "parsedHtml"

\* C23 as stated: the description parseHtmlContent returns has no line
\* equal to the title it returns, whether the title comes from the bold
\* span or is the first line.
C23_AsStated ==
  ParsedHtml =>
    \A i \in 1..Len(result.parsed.description) :
      result.parsed.description[i] # result.parsed.title

\* C23: the description has no line equal to the title of the bold span;
\* without a bold span the title is the first line and the description
\* keeps every line, that one included.
C23_BoldTitleExcluded ==
  ParsedHtml =>
    LET content == result.content
        parsed  == result.parsed
    IN  /\ content.strong # "" =>
              /\ parsed.title = <<content.strong>>
              /\ \A i \in 1..Len(parsed.description) :
                    parsed.description[i] # parsed.title
              /\ Len(parsed.description)
                    = Cardinality({i \in 1..Len(content.lines) :
                                    content.lines[i] # content.strong})
        /\ (content.strong = "" /\ Len(content.lines) > 0) =>
              /\ parsed.title = <<content.lines[1]>>
              /\ Len(parsed.description) = Len(content.lines)
              /\ parsed.description[1] = parsed.title

\* a content whose bold title comes again as a line, next to another line
C23_Witness ==
  /\ ParsedHtml
  /\ result.content.strong = "Talent Systems"
  /\ result.content.lines = <<"Talent Systems", "Uses Outlook">>
  /\ result.parsed.description = << <<"Uses Outlook">> >>

(* ------------- the connector loop of a parse, step by step ------------- *)
\* the frames of the loop: the three shapes of board "links" and up to
\* MaxConnectors of its connectors in any order
LoopFrames ==
  {cs \in SeqsUpTo(BoardConnectors("links"), MaxConnectors) :
     \A i, j \in 1..Len(cs) : i # j => cs[i] # cs[j]}

\* a parse at the head of its loop over the connectors: the accumulator of
\* processConnectors and the integrations of the model under construction
loopStart(by) ==
  [by |-> by, pass |-> IF by = "parseFrameToC4Container" THEN "single" ELSE "validation",
   i |-> 1,
   acc |-> IF by = "parseFrameToC4Container" THEN EmptyAcc ELSE EmptyAcc_7,
   integrations |-> <<>>,
   res |-> [hasModel |-> FALSE, integrations |-> <<>>, errors |-> <<>>]]

InitLoop ==
  /\ board = "links"
  /\ shapeIds = <<"s3", "s4", "s5">>
  /\ connectorIds \in LoopFrames
  /\ pc = "connectors"
  /\ result \in {loopStart("parseFrameToC4Container"), loopStart("parseFrameToC4Context_9")}
  /\ component = "C4Exporter"
  /\ NoExport

\* an iteration that also writes the integrations into the model
loopBody_eager(st) ==
  LET acc == processConnector(st.acc, FrameConnectors[st.i],
                              collectShapesForProcessing(FrameItems))
  IN  [st EXCEPT !.acc = acc, !.i = @ + 1, !.integrations = acc.integrations]
\* one iteration of the loop of processConnectors (c4Utils.ts, first copy)
loopBody(st) ==
  [st EXCEPT !.acc = processConnector(@, FrameConnectors[st.i],
                                      collectShapesForProcessing(FrameItems)),
             !.i = @ + 1]

\* one iteration of the loop of processConnectors of part_007
loopBody_7(st) ==
  [st EXCEPT !.acc = processConnector_7(@, FrameConnectors[st.i], FrameShapes),
             !.i = @ + 1]

iterate ==
  /\ pc = "connectors"
  /\ result.by = "parseFrameToC4Container"
  /\ result.i <= Len(FrameConnectors)
  /\ result' = loopBody(result)
  /\ UNCHANGED <<board, shapeIds, connectorIds, pc>>
  /\ UNCHANGED exportVars

iterate_7 ==
  /\ pc = "connectors"
  /\ result.by = "parseFrameToC4Context_9"
  /\ result.i <= Len(FrameConnectors)
  /\ result' = loopBody_7(result)
  /\ UNCHANGED <<board, shapeIds, connectorIds, pc>>
  /\ UNCHANGED exportVars

\* parseFrameToC4Container after processConnectors has returned:
\* state.model.integrations = integrations
assigned ==
  /\ pc = "connectors"
  /\ result.by = "parseFrameToC4Container"
  /\ result.i > Len(FrameConnectors)
  /\ result' = [result EXCEPT !.integrations = result.acc.integrations]
  /\ pc' = "built"
  /\ UNCHANGED <<board, shapeIds, connectorIds>>
  /\ UNCHANGED exportVars

\* parseFrameToC4Context of part_009 after its first processConnectors:
\* with a pair it returns the errors, else it runs processConnectors again
validated_9 ==
  /\ pc = "connectors"
  /\ result.by = "parseFrameToC4Context_9"
  /\ result.pass = "validation"
  /\ result.i > Len(FrameConnectors)
  /\ IF Len(result.acc.bidirectionalRelationships) > 0
     THEN /\ result' = [result EXCEPT !.res =
                          [hasModel |-> FALSE, integrations |-> <<>>,
                           errors |-> pairKeyErrors(result.acc.bidirectionalRelationships)]]
          /\ pc' = "returned"
     ELSE /\ result' = [result EXCEPT !.pass = "build", !.i = 1, !.acc = EmptyAcc_7]
          /\ pc' = "connectors"
  /\ UNCHANGED <<board, shapeIds, connectorIds>>
  /\ UNCHANGED exportVars

\* part_009 after its second processConnectors: the integrations of the model
assigned_9 ==
  /\ pc = "connectors"
  /\ result.by = "parseFrameToC4Context_9"
  /\ result.pass = "build"
  /\ result.i > Len(FrameConnectors)
  /\ result' = [result EXCEPT !.integrations = result.acc.integrations]
  /\ pc' = "built"
  /\ UNCHANGED <<board, shapeIds, connectorIds>>
  /\ UNCHANGED exportVars

\* the return: validateAndReturnContainerResult, or the model of part_009
returned ==
  /\ pc = "built"
  /\ result' = [result EXCEPT !.res =
       IF Len(result.acc.bidirectionalRelationships) > 0
       THEN [hasModel |-> FALSE, integrations |-> <<>>,
             errors |-> IF result.by = "parseFrameToC4Container"
                        THEN bidirectionalErrors(result.acc.bidirectionalRelationships)
                        ELSE pairKeyErrors(result.acc.bidirectionalRelationships)]
       ELSE [hasModel |-> TRUE, integrations |-> result.integrations, errors |-> <<>>]]
  /\ pc' = "returned"
  /\ UNCHANGED <<board, shapeIds, connectorIds>>
  /\ UNCHANGED exportVars

NextLoop ==
  \/ iterate
  \/ iterate_7
  \/ assigned
  \/ validated_9
  \/ assigned_9
  \/ returned

LoopSpec == InitLoop /\ [][NextLoop]_vars

\* every connector of the frame has been checked for arrowheads and pairs
AllChecked == result.pass = "build" \/ result.i > Len(FrameConnectors)

Invocations == {"A", "B"}

\* the items of the frames the two invocations are called with
FramesOfA ==
  {ids \in SeqsUpTo(BoardShapes("duplicates"), MaxShapes) :
     \A i, j \in 1..Len(ids) : i # j => ids[i] # ids[j]}
FramesOfB == {<<>>, <<"g2">>, <<"g2", "g1">>, <<"a1", "d1", "y1">>}

itemsOf(ids) == [i \in 1..Len(ids) |-> Item(ids[i])]

\* an invocation before its first await resolves
called(ids) ==
  [frame |-> ids, at |-> "called", items |-> <<>>, shapeMap |-> <<>>,
   conn |-> EmptyAcc, i |-> 1, state |-> newProcessingState,
   res |-> [hasModel |-> FALSE, warnings |-> <<>>, errors |-> <<>>]]

InitConc ==
  /\ board = "duplicates"
  /\ shapeIds = <<>>
  /\ connectorIds = <<>>
  /\ pc = "concurrent"
  /\ \E a \in FramesOfA, b \in FramesOfB :
       result = [by |-> "concurrent",
                 inv |-> [k \in Invocations |-> called(IF k = "A" THEN a ELSE b)]]
  /\ component = "C4Exporter"
  /\ NoExport

\* one processing state read by every invocation
stateOf_shared(inv, k) == inv["A"].state
\* const state of parseFrameToC4Container: local to the invocation
stateOf(inv, k) == inv[k].state

\* what a step of an invocation leaves alone
invocationStep ==
  /\ pc = "concurrent"
  /\ UNCHANGED <<board, shapeIds, connectorIds, pc>>
  /\ UNCHANGED exportVars

\* await getFrameItems(frame) resolves with the items of the frame
gotFrameItems ==
  /\ invocationStep
  /\ \E k \in Invocations :
       /\ result.inv[k].at = "called"
       /\ result' = [result EXCEPT !.inv[k].at = "items",
                                   !.inv[k].items = itemsOf(result.inv[k].frame)]

\* the state is created, the shapes are collected, the connectors processed;
\* the invocation stops at the first await of processAllShapesIntoModel
collected ==
  /\ invocationStep
  /\ \E k \in Invocations :
       /\ result.inv[k].at = "items"
       /\ LET items    == result.inv[k].items
              shapeMap == collectShapesForProcessing(items)
              cs       == SelectSeq(items, LAMBDA item :
                            item.type = "connector" /\ ~isInLegendArea(item))
          IN  result' = [result EXCEPT !.inv[k].at = "shapes",
                                       !.inv[k].state = newProcessingState,
                                       !.inv[k].shapeMap = shapeMap,
                                       !.inv[k].conn = processConnectors(cs, shapeMap),
                                       !.inv[k].i = 1]

\* await processShapeIntoModel for the next shape of the shape map
shapeProcessed ==
  /\ invocationStep
  /\ \E k \in Invocations :
       /\ result.inv[k].at = "shapes"
       /\ result.inv[k].i <= Len(result.inv[k].shapeMap)
       /\ LET me == result.inv[k]
          IN  result' = [result EXCEPT
                !.inv[k].state = processShapeIntoModel(stateOf(result.inv, k),
                                   me.shapeMap[me.i], me.items,
                                   me.conn.incomingCount, me.conn.outgoingCount),
                !.inv[k].i = @ + 1]

\* state.model.integrations = integrations; validateAndReturnContainerResult
resolved ==
  /\ invocationStep
  /\ \E k \in Invocations :
       /\ result.inv[k].at = "shapes"
       /\ result.inv[k].i > Len(result.inv[k].shapeMap)
       /\ LET me    == result.inv[k]
              state == stateOf(result.inv, k)
              model == [level |-> "Container", people |-> state.people,
                        containers |-> state.containers, systems |-> state.systems,
                        integrations |-> me.conn.integrations]
          IN  result' = [result EXCEPT
                !.inv[k].at = "returned",
                !.inv[k].res = validateAndReturnContainerResult(model,
                                 me.conn.bidirectionalRelationships)]

NextConc ==
  \/ gotFrameItems
  \/ collected
  \/ shapeProcessed
  \/ resolved

ConcSpec == InitConc /\ [][NextConc]_vars

\* the names of the shapes of a frame
namesOf(ids) == {shapeTitle(Item(id)) : id \in {x \in Range(ids) : Item(x).type = "shape"}}

\* C25: two parse invocations whose suspension points interleave in any
\* order each return the result they return when run alone, and while in
\* flight the name set of each holds names of its own frame only.
C25_Isolated ==
  \A k \in Invocations :
    /\ result.inv[k].at = "returned" =>
         result.inv[k].res = parseFrameToC4Container(itemsOf(result.inv[k].frame)).res
    /\ result.inv[k].state.containerNames \subseteq namesOf(result.inv[k].frame)

\* both invocations are suspended inside processAllShapesIntoModel, each
\* having recorded the container name the other has recorded too, and one
\* of them goes on to drop a duplicate of its own
C25_Witness ==
  /\ \A k \in Invocations :
       /\ result.inv[k].at = "shapes"
       /\ result.inv[k].i = 2
       /\ Len(result.inv[k].shapeMap) = 2
       /\ result.inv[k].state.containerNames = {shapeTitle(Item("g1"))}
  /\ result.inv["A"].frame = <<"g1", "g2">>
  /\ result.inv["B"].frame = <<"g2", "g1">>

\* C26: every integration of a returned model has a source and a dependsOn
\* that are each the name of a node of the same model's people, systems or
\* containers.
C26_ReferentialIntegrity ==
  (Parsed /\ result.res.hasModel) =>
    \A i \in 1..Len(result.res.model.integrations) :
      /\ IsNodeName(result.res.model, result.res.model.integrations[i].source)
      /\ IsNodeName(result.res.model, result.res.model.integrations[i].dependsOn)

\* the frame without the children of its Legend sub-frame
WithoutLegend == SelectSeq(FrameItems, LAMBDA item : item.id \notin LegendChildrenIds)

\* C27: a frame and the frame without the children of its Legend sub-frame
\* parse to the same result: legend content does not influence the document.
C27_LegendIrrelevant ==
  (Parsed /\ result.by = "parseFrameToC4Container") =>
    result.res = Reparse(WithoutLegend).res

\* C28: a parse result carries a model if and only if its error list is
\* empty: no result has both a model and errors, and none has neither.
C28_ModelIffNoErrors ==
  Parsed => (result.res.hasModel <=> result.res.errors = <<>>)

\* the container parse of a frame with a bidirectional connector has
\* returned its three or more error lines and no model
C28_Witness ==
  /\ Parsed
  /\ result.by = "parseFrameToC4Container"
  /\ ~result.res.hasModel
  /\ Len(result.res.errors) >= 3
  /\ Len(result.conn.integrations) > 0

\* the sum of the counts of a count map
RECURSIVE SumOf(_)
SumOf(m) ==
  IF DOMAIN m = {} THEN 0
  ELSE LET k == CHOOSE n \in DOMAIN m : TRUE
       IN  m[k] + SumOf([n \in DOMAIN m \ {k} |-> m[n]])

\* C29: after processConnectors the incoming counts and the outgoing counts
\* have the same sum, and that sum is at most the number of integrations.
C29_DegreeConservation ==
  Parsed =>
    /\ SumOf(result.conn.incomingCount) = SumOf(result.conn.outgoingCount)
    /\ SumOf(result.conn.outgoingCount) <= Len(result.conn.integrations)

\* the first processConnectors has emitted two integrations and counted one
\* of them only, the other touching a person
C29_Witness ==
  /\ Parsed
  /\ result.link = "processConnectors"
  /\ Len(result.conn.integrations) = 2
  /\ SumOf(result.conn.incomingCount) = 1
  /\ SumOf(result.conn.outgoingCount) = 1

(* --------------------- the exporter, its awaits settling --------------- *)
\* the promises the handler awaits settle and the event loop runs the
\* continuation that waits for them
FairExportSpec == ExportSpec /\ WF_vars(awaited) /\ WF_vars(resumed)

\* isLoading of the exporter
isLoading == pc # "idle"

\* C30: every handleExport that has set isLoading to true eventually resets
\* it to false, on every exit path.
C30_LoadingReleased == isLoading ~> ~isLoading

\* after a download, a later export has failed in the parser and the
\* handler has finished with the flag released
C30_Witness ==
  /\ ~isLoading
  /\ promise = "fulfilled"
  /\ fault = "parserThrew"
  /\ Len(errors) = 1
  /\ Len(downloads) = 1
====
